---- MODULE Spec2Model ----
(***************************************************************************)
(* The message board of Ops-Smith/Node-App: the express server of          *)
(* src/backend/server.js (the JSON file store, the routes, the sweep       *)
(* timer) and the part of src/frontend/script.js that reads its answers.   *)
(*                                                                         *)
(* Time is the millisecond clock Date.now(); the model advances it a       *)
(* whole hour at a time, so every clock value is a multiple of HourMs.     *)
(* Callbacks (route handlers, the setInterval callback) run to completion: *)
(* they only use fs.readFileSync and fs.writeFileSync and never await.     *)
(***************************************************************************)
EXTENDS Integers, Sequences, FiniteSets, TLC

VARIABLES
    file,             \* the content of DATA_FILE
    now,              \* Date.now(), in ms
    timers,           \* the active intervals of the process (setInterval)
    autoDeleteTimer,  \* let autoDeleteTimer (server.js:145)
    req,              \* the last event: a request or a timer tick
    resp,             \* the answer to it
    inflight,         \* callbacks that have loaded and not yet saved (SpecIO)
    alive,            \* the node process runs (no uncaught exception ended it)
    ui                \* the page of the client (SpecClient)

vars == <<file, now, timers, autoDeleteTimer, req, resp, inflight, alive, ui>>

-----------------------------------------------------------------------------
(* Bounds of the model *)

MaxTime == 3      \* the clock runs from 0 to MaxTime hours
MaxMsgs == 2      \* POST /messages is offered while fewer are stored
MaxHours == 2     \* the largest hours value a request carries
MaxPending == 2   \* the fetches of actions the page awaits at one time

-----------------------------------------------------------------------------
(* Configuration and constants *)

\* process.env.AUTO_DELETE_HOURS as the process is started here
EnvAutoDeleteHours == 2

\* parseInt(process.env.AUTO_DELETE_HOURS) || 24
AUTO_DELETE_HOURS == IF EnvAutoDeleteHours # 0 THEN EnvAutoDeleteHours ELSE 24

\* hours * 60 * 60 * 1000
HourMs == 60 * 60 * 1000

NULL == 0

Times == {k * HourMs : k \in 0..MaxTime}

-----------------------------------------------------------------------------
(* Strings and dates *)

IsSpace(c) == c \in {" ", "\t", "\n"}

RECURSIVE TrimStart(_)
TrimStart(s) ==
    IF s # <<>> /\ IsSpace(Head(s)) THEN TrimStart(Tail(s)) ELSE s

RECURSIVE TrimEnd(_)
TrimEnd(s) ==
    IF s # <<>> /\ IsSpace(s[Len(s)]) THEN TrimEnd(SubSeq(s, 1, Len(s) - 1)) ELSE s

\* String.prototype.trim, on a text held as its sequence of characters
Trim(s) == TrimEnd(TrimStart(s))

\* Date.now().toString()
NumToString(t) == ToString(t)

\* new Date().toISOString(): a string that names the millisecond t
toISOString(t) == "ISO:" \o ToString(t)

\* new Date(msg.timestamp): the millisecond an ISO string names, -1 for an
\* invalid date (every comparison with it is false)
DateParse(s) ==
    IF \E t \in Times : toISOString(t) = s
    THEN CHOOSE t \in Times : toISOString(t) = s
    ELSE -1

-----------------------------------------------------------------------------
(* The backing file *)

\* JSON.stringify(messages, null, 2)
Stringify(messages) == [kind |-> "json", value |-> messages]

\* what is left of the file when a write fails after the file was opened
\* (flag 'w' truncates on open): no parseable JSON
Truncated == [kind |-> "truncated", value |-> <<>>]

\* a file that is not there (readFileSync throws)
Missing == [kind |-> "missing", value |-> <<>>]

\* a file holding JSON whose root is no array: {} or null
ObjectRoot == [kind |-> "object", value |-> <<>>]
NullRoot == [kind |-> "null", value |-> <<>>]

\* what readMessages returns is an array: the root of the file's JSON when it
\* is one, and the [] of the catch when reading or parsing throws; any other
\* JSON root is returned as JSON.parse gives it
ReturnsArray(f) == f.kind \notin {"object", "null"}

\* readMessages: JSON.parse of the file, [] when reading or parsing throws
\* (the array it returns; see ReturnsArray for a root that is no array)
readMessages(f) == IF f.kind = "json" THEN f.value ELSE <<>>

\* The ways fs.writeFileSync can end: it returns; it throws before the file is
\* opened (EACCES, EROFS, ...); it throws after the open truncated the file
\* (ENOSPC, EIO, ...).
IoOutcomes == {"ok", "failOpen", "failWrite"}

NoWrite == [attempt |-> FALSE, ok |-> FALSE, io |-> "none", data |-> <<>>,
            threw |-> FALSE]

\* writeMessages: true when the write went through, false when it threw
writeMessages(messages, io) ==
    [attempt |-> TRUE, ok |-> (io = "ok"), io |-> io, data |-> messages,
     threw |-> FALSE]

\* the file after a handler's write (or after none)
FileAfter(f, w) ==
    IF ~w.attempt THEN f
    ELSE IF w.io = "ok" THEN Stringify(w.data)
    ELSE IF w.io = "failOpen" THEN f
    ELSE Truncated

-----------------------------------------------------------------------------
(* Requests and responses *)

NoMsg == [id |-> "", text |-> <<>>, timestamp |-> ""]

\* the value of req.body.hours: absent, a string that is no number, a number
NoHours == [kind |-> "absent", n |-> 0]
HoursInputs ==
    {NoHours, [kind |-> "string", n |-> 0]}
        \cup {[kind |-> "number", n |-> k] : k \in -1..MaxHours}

\* !hours
Falsy(h) == h.kind = "absent" \/ (h.kind = "number" /\ h.n = 0)
\* isNaN(hours)
IsNaN(h) == h.kind # "number"
\* hours < 0
Negative(h) == h.kind = "number" /\ h.n < 0
\* !hours || isNaN(hours) || hours < 0
InvalidHours(h) == Falsy(h) \/ IsNaN(h) \/ Negative(h)

\* the texts a client sends, each as its characters
Texts == {<<>>, <<" ", " ">>, <<" ", "a", " ">>}

\* the body of POST /messages: text may be missing; a client may add fields
\* of its own, which the server is free to read
PostBodies ==
    {[hasText |-> FALSE, text |-> <<>>, id |-> "client-id", timestamp |-> "client-ts"]}
        \cup {[hasText |-> TRUE, text |-> x, id |-> "client-id", timestamp |-> "client-ts"]
                 : x \in Texts}

NoBody == [hasText |-> FALSE, text |-> <<>>, id |-> "", timestamp |-> ""]

\* the ids a client asks to delete
IdInputs == {NumToString(t) : t \in Times}

EmptyBody ==
    [error |-> "", message |-> "", item |-> NoMsg, items |-> <<>>,
     deletedCount |-> -1, hours |-> NoHours, currentSetting |-> "",
     nonArray |-> ""]

ErrorBody(e) == [EmptyBody EXCEPT !.error = e]

\* what a handler did: the response, its write of the file, and the hours
\* it restarted the sweep timer with (0: it did not)
Reply(status, body, w, restart) ==
    [status |-> status, body |-> body, w |-> w, restart |-> restart]

-----------------------------------------------------------------------------
(* Route handlers, each on the messages it loaded *)

\* app.get('/messages')
GetMessages(msgs) ==
    Reply(200, [EmptyBody EXCEPT !.items = msgs], NoWrite, 0)

\* app.post('/messages') storing the text as sent, not trimmed
PostMessagesUntrimmed(msgs, body, t, io) ==
    IF ~body.hasText \/ body.text = <<>> \/ Trim(body.text) = <<>>
    THEN Reply(400, ErrorBody("Message text is required"), NoWrite, 0)
    ELSE LET newMessage == [id |-> NumToString(t),
                            text |-> body.text,
                            timestamp |-> toISOString(t)]
             w == writeMessages(Append(msgs, newMessage), io)
         IN  IF w.ok
             THEN Reply(201, [EmptyBody EXCEPT !.item = newMessage], w, 0)
             ELSE Reply(500, ErrorBody("Failed to save message"), w, 0)

\* app.post('/messages')
PostMessages(msgs, body, t, io) ==
    IF ~body.hasText \/ body.text = <<>> \/ Trim(body.text) = <<>>
    THEN Reply(400, ErrorBody("Message text is required"), NoWrite, 0)
    ELSE LET newMessage == [id |-> NumToString(t),
                            text |-> Trim(body.text),
                            timestamp |-> toISOString(t)]
             w == writeMessages(Append(msgs, newMessage), io)
         IN  IF w.ok
             THEN Reply(201, [EmptyBody EXCEPT !.item = newMessage], w, 0)
             ELSE Reply(500, ErrorBody("Failed to save message"), w, 0)

\* app.delete('/messages/:id') without its not-found return
DeleteMessageNoNotFound(msgs, messageId, io) ==
    LET filteredMessages == SelectSeq(msgs, LAMBDA msg : msg.id # messageId)
        w == writeMessages(filteredMessages, io)
    IN  IF w.ok
        THEN Reply(200, [EmptyBody EXCEPT
                           !.message = "Message deleted successfully",
                           !.deletedCount = 1], w, 0)
        ELSE Reply(500, ErrorBody("Failed to delete message"), w, 0)

\* app.delete('/messages/:id')
DeleteMessage(msgs, messageId, io) ==
    LET initialLength == Len(msgs)
        filteredMessages == SelectSeq(msgs, LAMBDA msg : msg.id # messageId)
    IN  IF Len(filteredMessages) = initialLength
        THEN Reply(404, ErrorBody("Message not found"), NoWrite, 0)
        ELSE LET w == writeMessages(filteredMessages, io)
             IN  IF w.ok
                 THEN Reply(200, [EmptyBody EXCEPT
                                    !.message = "Message deleted successfully",
                                    !.deletedCount = 1], w, 0)
                 ELSE Reply(500, ErrorBody("Failed to delete message"), w, 0)

\* app.delete('/messages') answering without looking at what writeMessages returned
DeleteAllIgnoringWrite(io) ==
    LET w == writeMessages(<<>>, io)
    IN  Reply(200, [EmptyBody EXCEPT
                      !.message = "All messages deleted successfully"], w, 0)

\* app.delete('/messages')
DeleteAll(io) ==
    LET w == writeMessages(<<>>, io)
    IN  IF w.ok
        THEN Reply(200, [EmptyBody EXCEPT
                           !.message = "All messages deleted successfully"], w, 0)
        ELSE Reply(500, ErrorBody("Failed to delete messages"), w, 0)

\* messages.filter(msg => new Date(msg.timestamp) >= cutoffTime)
KeepSince(msgs, cutoffTime) ==
    SelectSeq(msgs, LAMBDA msg : DateParse(msg.timestamp) # -1
                                   /\ DateParse(msg.timestamp) >= cutoffTime)

\* app.delete('/messages/older-than')
DeleteOlderThan(msgs, hours, t, io) ==
    IF InvalidHours(hours)
    THEN Reply(400, ErrorBody("Valid hours parameter is required"), NoWrite, 0)
    ELSE LET cutoffTime == t - (hours.n * 60 * 60 * 1000)
             filteredMessages == KeepSince(msgs, cutoffTime)
             w == writeMessages(filteredMessages, io)
         IN  IF w.ok
             THEN Reply(200, [EmptyBody EXCEPT
                                !.message = "Messages older than " \o ToString(hours.n)
                                               \o " hours deleted successfully",
                                !.deletedCount = Len(msgs) - Len(filteredMessages)],
                        w, 0)
             ELSE Reply(500, ErrorBody("Failed to delete old messages"), w, 0)

\* app.post('/messages/auto-delete')
SetAutoDelete(hours) ==
    IF InvalidHours(hours)
    THEN Reply(400, ErrorBody("Valid hours parameter is required"), NoWrite, 0)
    ELSE Reply(200, [EmptyBody EXCEPT
                       !.message = "Auto-deletion timer set to " \o ToString(hours.n)
                                      \o " hours",
                       !.hours = hours], NoWrite, hours.n)

\* app.get('/messages/auto-delete')
GetAutoDelete ==
    Reply(200, [EmptyBody EXCEPT
                  !.currentSetting = ToString(AUTO_DELETE_HOURS) \o " hours"],
          NoWrite, 0)

\* the 404 handler, after all routes
RouteNotFound == Reply(404, ErrorBody("Route not found"), NoWrite, 0)

-----------------------------------------------------------------------------
(* Routing: express tries the routes in the order they were registered *)

Routes ==
    << [method |-> "GET",    path |-> <<"messages">>,                handler |-> "getMessages"],
       [method |-> "POST",   path |-> <<"messages">>,                handler |-> "postMessages"],
       [method |-> "DELETE", path |-> <<"messages", ":id">>,         handler |-> "deleteMessage"],
       [method |-> "DELETE", path |-> <<"messages">>,                handler |-> "deleteAll"],
       [method |-> "DELETE", path |-> <<"messages", "older-than">>,  handler |-> "deleteOlderThan"],
       [method |-> "POST",   path |-> <<"messages", "auto-delete">>, handler |-> "setAutoDelete"],
       [method |-> "GET",    path |-> <<"messages", "auto-delete">>, handler |-> "getAutoDelete"] >>

\* a route matches a request of its method whose path has the same segments,
\* a ":id" segment standing for any
Matches(route, method, path) ==
    /\ route.method = method
    /\ Len(route.path) = Len(path)
    /\ \A i \in 1..Len(path) : route.path[i] = ":id" \/ route.path[i] = path[i]

\* the handler that answers: the first route that matches
Route(method, path) ==
    IF \E i \in 1..Len(Routes) : Matches(Routes[i], method, path)
    THEN LET i == CHOOSE k \in 1..Len(Routes) :
                      /\ Matches(Routes[k], method, path)
                      /\ \A j \in 1..(k - 1) : ~Matches(Routes[j], method, path)
         IN  Routes[i].handler
    ELSE "notFound"

\* the error handler: a handler threw (here a TypeError: messages.push,
\* messages.filter or messages.length on a value that is no array)
UnhandledError == Reply(500, ErrorBody("Internal server error"), NoWrite, 0)

\* one request, served when readMessages returns a JSON root that is no array
\* ("object": {}, "null": null): handlers that return before they use it, or
\* never read it, answer as always; res.json(messages) sends it as it is; the
\* array methods throw
ServeNonArray(root, method, path, body, hours, io) ==
    LET h == Route(method, path)
    IN  CASE h = "getMessages"     -> Reply(200, [EmptyBody EXCEPT !.nonArray = root],
                                            NoWrite, 0)
          [] h = "postMessages"    ->
                IF ~body.hasText \/ body.text = <<>> \/ Trim(body.text) = <<>>
                THEN Reply(400, ErrorBody("Message text is required"), NoWrite, 0)
                ELSE UnhandledError
          [] h = "deleteMessage"   -> UnhandledError
          [] h = "deleteAll"       -> DeleteAll(io)
          [] h = "deleteOlderThan" ->
                IF InvalidHours(hours)
                THEN Reply(400, ErrorBody("Valid hours parameter is required"),
                           NoWrite, 0)
                ELSE UnhandledError
          [] h = "setAutoDelete"   -> SetAutoDelete(hours)
          [] h = "getAutoDelete"   -> GetAutoDelete
          [] OTHER                 -> RouteNotFound

\* one request, served: req.params.id is the path's second segment
Serve(msgs, method, path, body, hours, t, io) ==
    LET h == Route(method, path)
    IN  CASE h = "getMessages"     -> GetMessages(msgs)
          [] h = "postMessages"    -> PostMessages(msgs, body, t, io)
          [] h = "deleteMessage"   -> DeleteMessage(msgs, path[2], io)
          [] h = "deleteAll"       -> DeleteAll(io)
          [] h = "deleteOlderThan" -> DeleteOlderThan(msgs, hours, t, io)
          [] h = "setAutoDelete"   -> SetAutoDelete(hours)
          [] h = "getAutoDelete"   -> GetAutoDelete
          [] OTHER                 -> RouteNotFound

-----------------------------------------------------------------------------
(* The sweep timer *)

\* clearInterval(handle): the interval is no longer active
clearInterval(tm, handle) == {k \in tm : k.id # handle}

\* setInterval(callback, intervalMs) at time t: a new active interval, first
\* due one period from now; the callback keeps the hours it was started with
setInterval(tm, id, hours, t) ==
    tm \cup {[id |-> id, hours |-> hours,
              intervalMs |-> hours * 60 * 60 * 1000,
              due |-> t + hours * 60 * 60 * 1000]}

\* a handle that names no interval yet
FreshHandle(tm, handle) ==
    CHOOSE id \in 1..(Cardinality(tm) + 2) :
        /\ id # handle
        /\ \A k \in tm : k.id # id
        /\ \A j \in 1..(id - 1) : j = handle \/ \E k \in tm : k.id = j

\* startAutoDeleteTimer(hours) without its clearInterval
startAutoDeleteTimerNoClear(tm, handle, hours, t) ==
    LET id == FreshHandle(tm, handle)
    IN  [timers |-> setInterval(tm, id, hours, t), handle |-> id]

\* startAutoDeleteTimer(hours): the active intervals and autoDeleteTimer after
startAutoDeleteTimer(tm, handle, hours, t) ==
    LET cleared == IF handle # NULL THEN clearInterval(tm, handle) ELSE tm
        id == FreshHandle(tm, handle)
    IN  [timers |-> setInterval(cleared, id, hours, t), handle |-> id]

\* the setInterval callback reading the default hours, not the hours it was
\* started with
SweepCallbackDefaultHours(msgs, intervalMs, t, io) ==
    IF Len(msgs) > 0
    THEN LET cutoffTime == t - AUTO_DELETE_HOURS * 60 * 60 * 1000
         IN  writeMessages(KeepSince(msgs, cutoffTime), io)
    ELSE NoWrite

\* the setInterval callback, on the messages it loaded: its write, if any
SweepCallback(msgs, intervalMs, t, io) ==
    IF Len(msgs) > 0
    THEN LET cutoffTime == t - intervalMs
         IN  writeMessages(KeepSince(msgs, cutoffTime), io)
    ELSE NoWrite

-----------------------------------------------------------------------------
(* The client's reading of the auto-delete setting *)

\* parseInt(s): the number a string starts with, 0 standing for NaN
parseInt(s) ==
    IF \E n \in 1..24 : s = ToString(n) \o " hours"
    THEN CHOOSE n \in 1..24 : s = ToString(n) \o " hours"
    ELSE 0

\* loadAutoDeleteSettings: the value put into the auto-delete input
AutoDeleteInputValue(settings) ==
    IF parseInt(settings.currentSetting) # 0
    THEN parseInt(settings.currentSetting)
    ELSE 24

-----------------------------------------------------------------------------
(* The page *)

\* what the user typed into hoursInput or autoDeleteInput
FieldValues == {"", "abc"} \cup {ToString(k) : k \in -1..MaxHours}

\* parseInt(input.value): the number the field holds, NaN when it holds none
parseIntField(v) ==
    IF \E k \in -1..MaxHours : v = ToString(k)
    THEN [kind |-> "number", n |-> CHOOSE k \in -1..MaxHours : v = ToString(k)]
    ELSE [kind |-> "NaN", n |-> 0]

\* !hours || hours < 1
RejectedHours(h) == h.kind = "NaN" \/ h.n = 0 \/ h.n < 1

\* how a fetch settles: the promise rejects (no connection), or a response
\* comes with response.ok true or false; its body parses as JSON or does not
\* (response.json() then rejects), and may carry an error field
NoAnswer == [kind |-> "none", json |-> FALSE, error |-> ""]
Answers ==
    {[kind |-> "rejected", json |-> FALSE, error |-> ""]}
        \cup {[kind |-> "ok", json |-> j, error |-> ""] : j \in BOOLEAN}
        \cup {[kind |-> "notOk", json |-> FALSE, error |-> ""]}
        \cup {[kind |-> "notOk", json |-> TRUE, error |-> e]
                 : e \in {"", "Message not found", "Failed to delete message"}}

\* Each action of the page is given as the effects it has, in order, in its
\* two runs: from the click to the fetch it awaits, and from the answer on.

\* deleteMessage: confirm, then the DELETE
deleteMessage(confirmed) ==
    IF ~confirmed THEN <<"confirm">> ELSE <<"confirm", "fetch">>

deleteMessageAnswered(a) ==
    IF a.kind # "ok"
    THEN <<"showError">>
    ELSE <<"showSuccess", "loadMessages", "checkBackendStatus">>

\* addMessage: the trimmed text must not be empty; there is no confirm
addMessage(text) ==
    IF Trim(text) = <<>> THEN <<"showError">> ELSE <<"fetch">>

addMessageAnswered(a) ==
    IF a.kind # "ok"
    THEN <<"showError">>
    ELSE <<"showSuccess", "loadMessages", "checkBackendStatus">>

\* deleteAllMessages: confirm, then the DELETE
deleteAllMessages(confirmed) ==
    IF ~confirmed THEN <<"confirm">> ELSE <<"confirm", "fetch">>

deleteAllMessagesAnswered(a) ==
    IF a.kind # "ok"
    THEN <<"showError">>
    ELSE <<"showSuccess", "loadMessages", "checkBackendStatus">>

\* clearMessagesOlderThan: the hours are checked, then confirm, then the
\* DELETE; the body is read before response.ok is looked at, and the list
\* and the status are fetched again whatever the response says
clearMessagesOlderThan(field, confirmed) ==
    IF RejectedHours(parseIntField(field)) THEN <<"showError">>
    ELSE IF ~confirmed THEN <<"confirm">>
    ELSE <<"confirm", "fetch">>

clearMessagesOlderThanAnswered(a) ==
    IF a.kind = "rejected" \/ ~a.json
    THEN <<"showError">>
    ELSE IF a.kind = "ok" \/ a.error = "Message not found"
    THEN <<"showSuccess", "loadMessages", "checkBackendStatus">>
    ELSE <<"showError", "loadMessages", "checkBackendStatus">>

\* setAutoDelete: the hours are checked, then confirm, then the POST; after
\* a response that is ok its body is read, and the setting is fetched again
setAutoDelete(field, confirmed) ==
    IF RejectedHours(parseIntField(field)) THEN <<"showError">>
    ELSE IF ~confirmed THEN <<"confirm">>
    ELSE <<"confirm", "fetch">>

setAutoDeleteAnsweredReloadingList(a) ==
    IF a.kind # "ok" \/ ~a.json
    THEN <<"showError">>
    ELSE <<"showSuccess", "loadMessages", "checkBackendStatus">>

setAutoDeleteAnswered(a) ==
    IF a.kind # "ok" \/ ~a.json
    THEN <<"showError">>
    ELSE <<"showSuccess", "loadAutoDeleteSettings">>

\* the run of an action after its fetch has settled
Answered(action, a) ==
    CASE action = "deleteMessage"          -> deleteMessageAnswered(a)
      [] action = "addMessage"             -> addMessageAnswered(a)
      [] action = "deleteAllMessages"      -> deleteAllMessagesAnswered(a)
      [] action = "clearMessagesOlderThan" -> clearMessagesOlderThanAnswered(a)
      [] action = "setAutoDelete"          -> setAutoDeleteAnswered(a)

\* showMessage: the notification on the page after a run; a new one takes
\* the place of the one shown
showMessage(shown, log) ==
    IF \E i \in 1..Len(log) : log[i] = "showSuccess" THEN "success"
    ELSE IF \E i \in 1..Len(log) : log[i] = "showError" THEN "error"
    ELSE shown

\* the fetches of loadMessages, checkBackendStatus and loadAutoDeleteSettings
\* a run has started
Started(log) ==
    {log[i] : i \in 1..Len(log)}
        \cap {"loadMessages", "checkBackendStatus", "loadAutoDeleteSettings"}

\* the last run of the page
NoRun == [action |-> "none", phase |-> "idle", confirmed |-> FALSE,
          answer |-> NoAnswer, log |-> <<>>]

\* the page at rest: no fetch awaited, nothing shown, nothing loading
NoUi == [pending |-> <<>>, last |-> NoRun, notification |-> "none",
         loading |-> {}]

-----------------------------------------------------------------------------
(* Events *)

NoReq == [op |-> "start", body |-> NoBody, id |-> "", hours |-> NoHours,
          timer |-> NULL, period |-> 0]

NoResp == [status |-> 0, body |-> EmptyBody, write |-> "none"]

Response(r) == [status |-> r.status, body |-> r.body, write |-> r.w.io]

\* a callback that awaits its file calls: another may start meanwhile
EventLoopIdleAwaiting == TRUE

\* The event loop runs one callback at a time, and a callback that only makes
\* synchronous calls (fs.readFileSync, fs.writeFileSync) runs to its end:
\* a callback starts only when no other is between its load and its save.
EventLoopIdle == inflight = {}

\* a request is served in one step: load, compute, save, respond; a write
\* can only fail where the handler makes one
Request(op, method, path, body, hours, io) ==
    \E r \in {IF ReturnsArray(file)
              THEN Serve(readMessages(file), method, path, body, hours, now, io)
              ELSE ServeNonArray(file.kind, method, path, body, hours, io)} :
    \E started \in {IF r.restart # 0
                    THEN startAutoDeleteTimer(timers, autoDeleteTimer, r.restart, now)
                    ELSE [timers |-> timers, handle |-> autoDeleteTimer]} :
        /\ r.w.attempt \/ io = "ok"
        /\ file' = FileAfter(file, r.w)
        /\ timers' = started.timers
        /\ autoDeleteTimer' = started.handle
        /\ req' = [NoReq EXCEPT !.op = op, !.body = body,
                                !.id = IF Len(path) > 1 THEN path[2] ELSE "",
                                !.hours = hours]
        /\ resp' = Response(r)
        /\ UNCHANGED <<now, inflight, alive>>

ReqGetMessages ==
    /\ alive
    /\ EventLoopIdle
    /\ UNCHANGED ui
    /\ Request("getMessages", "GET", <<"messages">>, NoBody, NoHours, "ok")

ReqPostMessage ==
    /\ alive
    /\ EventLoopIdle
    /\ UNCHANGED ui
    /\ Len(readMessages(file)) < MaxMsgs
    /\ \E body \in PostBodies, io \in IoOutcomes :
          Request("postMessage", "POST", <<"messages">>, body, NoHours, io)

ReqDeleteMessage ==
    /\ alive
    /\ EventLoopIdle
    /\ UNCHANGED ui
    /\ \E id \in IdInputs, io \in IoOutcomes :
          Request("deleteMessage", "DELETE", <<"messages", id>>, NoBody, NoHours, io)

ReqDeleteAll ==
    /\ alive
    /\ EventLoopIdle
    /\ UNCHANGED ui
    /\ \E io \in IoOutcomes :
          Request("deleteAll", "DELETE", <<"messages">>, NoBody, NoHours, io)

ReqDeleteOlderThan ==
    /\ alive
    /\ EventLoopIdle
    /\ UNCHANGED ui
    /\ \E hours \in HoursInputs, io \in IoOutcomes :
          Request("deleteOlderThan", "DELETE", <<"messages", "older-than">>,
                  NoBody, hours, io)

ReqSetAutoDelete ==
    /\ alive
    /\ EventLoopIdle
    /\ UNCHANGED ui
    /\ \E hours \in HoursInputs :
          Request("setAutoDelete", "POST", <<"messages", "auto-delete">>,
                  NoBody, hours, "ok")

ReqGetAutoDelete ==
    /\ alive
    /\ EventLoopIdle
    /\ UNCHANGED ui
    /\ Request("getAutoDelete", "GET", <<"messages", "auto-delete">>,
               NoBody, NoHours, "ok")

\* the setInterval callback on whatever readMessages returns: on an array as
\* SweepCallback; on {} messages.length is undefined and nothing is done; on
\* null messages.length throws, and nothing catches it in a timer callback
SweepOutcome(f, intervalMs, t, io) ==
    IF ReturnsArray(f)
    THEN [SweepCallback(readMessages(f), intervalMs, t, io) EXCEPT !.threw = FALSE]
    ELSE [NoWrite EXCEPT !.threw = (f.kind = "null")]

\* an interval that is due fires: its callback runs, and it is due again one
\* period later; an exception it does not catch ends the process
SweepTick ==
    /\ alive
    /\ EventLoopIdle
    /\ \E k \in timers, io \in IoOutcomes :
          /\ k.due = now
          /\ \E w \in {SweepOutcome(file, k.intervalMs, now, io)} :
                /\ w.attempt \/ io = "ok"
                /\ file' = FileAfter(file, w)
                /\ resp' = [NoResp EXCEPT !.write = w.io]
                /\ alive' = ~w.threw
          /\ timers' = (timers \ {k}) \cup {[k EXCEPT !.due = k.due + k.intervalMs]}
          /\ req' = [NoReq EXCEPT !.op = "sweep", !.timer = k.id,
                                  !.period = k.intervalMs]
          /\ UNCHANGED <<now, autoDeleteTimer, inflight, ui>>

\* an hour passes; an interval that is due fires before the clock moves on
Advance ==
    /\ alive
    /\ EventLoopIdle
    /\ now < MaxTime * HourMs
    /\ \A k \in timers : k.due > now
    /\ now' = now + HourMs
    /\ req' = [NoReq EXCEPT !.op = "advance"]
    /\ resp' = NoResp
    /\ UNCHANGED <<file, timers, autoDeleteTimer, inflight, alive, ui>>

\* the process after startup: ensureDataDirectory left a file holding [], and
\* startAutoDeleteTimer() ran with the default hours
Init ==
    /\ file = Stringify(<<>>)
    /\ now = 0
    /\ timers = startAutoDeleteTimer({}, NULL, AUTO_DELETE_HOURS, 0).timers
    /\ autoDeleteTimer = startAutoDeleteTimer({}, NULL, AUTO_DELETE_HOURS, 0).handle
    /\ req = NoReq
    /\ resp = NoResp
    /\ inflight = {}
    /\ alive = TRUE
    /\ ui = NoUi

Next ==
    \/ ReqGetMessages
    \/ ReqPostMessage
    \/ ReqDeleteMessage
    \/ ReqDeleteAll
    \/ ReqDeleteOlderThan
    \/ ReqSetAutoDelete
    \/ ReqGetAutoDelete
    \/ SweepTick
    \/ Advance

Spec == Init /\ [][Next]_vars

\* the process started on a data file that was already there, whatever it
\* holds (ensureDataDirectory only creates the file when there is none), or
\* that it could not create
InitAnyFile ==
    /\ file \in {Stringify(<<>>), Missing, Truncated, ObjectRoot, NullRoot}
    /\ now = 0
    /\ timers = startAutoDeleteTimer({}, NULL, AUTO_DELETE_HOURS, 0).timers
    /\ autoDeleteTimer = startAutoDeleteTimer({}, NULL, AUTO_DELETE_HOURS, 0).handle
    /\ req = NoReq
    /\ resp = NoResp
    /\ inflight = {}
    /\ alive = TRUE
    /\ ui = NoUi

SpecAnyFile == InitAnyFile /\ [][Next]_vars

-----------------------------------------------------------------------------
(* The page, as a process of its own: what the server answers is its input *)

server == <<file, now, timers, autoDeleteTimer, req, resp, inflight, alive>>

\* a click (or Enter) runs an action up to the fetch it awaits
Clicked(action, confirmed, log) ==
    /\ ui' = [ui EXCEPT
                !.pending = IF \E i \in 1..Len(log) : log[i] = "fetch"
                            THEN Append(@, action) ELSE @,
                !.last = [action |-> action, phase |-> "clicked",
                          confirmed |-> confirmed, answer |-> NoAnswer,
                          log |-> log],
                !.notification = showMessage(@, log),
                !.loading = @ \cup Started(log)]
    /\ UNCHANGED server

UiDeleteMessage ==
    /\ Len(ui.pending) < MaxPending
    /\ \E confirmed \in BOOLEAN :
          Clicked("deleteMessage", confirmed, deleteMessage(confirmed))

UiAddMessage ==
    /\ Len(ui.pending) < MaxPending
    /\ \E text \in Texts : Clicked("addMessage", FALSE, addMessage(text))

UiDeleteAllMessages ==
    /\ Len(ui.pending) < MaxPending
    /\ \E confirmed \in BOOLEAN :
          Clicked("deleteAllMessages", confirmed, deleteAllMessages(confirmed))

UiClearMessagesOlderThan ==
    /\ Len(ui.pending) < MaxPending
    /\ \E field \in FieldValues, confirmed \in BOOLEAN :
          Clicked("clearMessagesOlderThan", confirmed,
                  clearMessagesOlderThan(field, confirmed))

UiSetAutoDelete ==
    /\ Len(ui.pending) < MaxPending
    /\ \E field \in FieldValues, confirmed \in BOOLEAN :
          Clicked("setAutoDelete", confirmed, setAutoDelete(field, confirmed))

\* a fetch the page awaits settles, and its action runs to its end
UiAnswer ==
    /\ ui.pending # <<>>
    /\ \E i \in 1..Len(ui.pending), a \in Answers :
      \E log \in {Answered(ui.pending[i], a)} :
        /\ ui' = [ui EXCEPT
                    !.pending = SubSeq(@, 1, i - 1) \o SubSeq(@, i + 1, Len(@)),
                    !.last = [action |-> ui.pending[i], phase |-> "answered",
                              confirmed |-> (ui.pending[i] # "addMessage"),
                              answer |-> a, log |-> log],
                    !.notification = showMessage(@, log),
                    !.loading = @ \cup Started(log)]
        /\ UNCHANGED server

\* the fetch of loadMessages, checkBackendStatus or loadAutoDeleteSettings
\* settles; each renders into its own element and shows no notification
UiLoaded ==
    /\ \E f \in ui.loading : ui' = [ui EXCEPT !.loading = @ \ {f}]
    /\ UNCHANGED server

\* the 30 second interval fires
UiAutoRefresh ==
    /\ ui.loading # {"loadMessages", "checkBackendStatus", "loadAutoDeleteSettings"}
    /\ ui' = [ui EXCEPT !.loading = @ \cup {"loadMessages", "checkBackendStatus"}]
    /\ UNCHANGED server

\* the notification goes: its 5 second timeout, or its close button
UiDismiss ==
    /\ ui.notification # "none"
    /\ ui' = [ui EXCEPT !.notification = "none"]
    /\ UNCHANGED server

NextClient ==
    \/ UiDeleteMessage
    \/ UiAddMessage
    \/ UiDeleteAllMessages
    \/ UiClearMessagesOlderThan
    \/ UiSetAutoDelete
    \/ UiAnswer
    \/ UiLoaded
    \/ UiAutoRefresh
    \/ UiDismiss

SpecClient == Init /\ [][NextClient]_vars

-----------------------------------------------------------------------------
(* The same callbacks with the load and the save as separate steps: what   *)
(* may happen between a callback's readMessages and its writeMessages.     *)

Callback(op, body, id, timer, period, snapshot) ==
    [op |-> op, body |-> body, id |-> id, timer |-> timer, period |-> period,
     snapshot |-> snapshot]

\* app.post('/messages') up to its readMessages (a body it answers 400 never
\* gets there)
IOLoadPost ==
    /\ EventLoopIdle
    /\ Len(readMessages(file)) < MaxMsgs
    /\ \E body \in PostBodies :
          /\ body.hasText /\ Trim(body.text) # <<>>
          /\ inflight' = inflight \cup
                {Callback("postMessage", body, "", NULL, 0, readMessages(file))}
          /\ req' = [NoReq EXCEPT !.op = "postMessage", !.body = body]
    /\ resp' = NoResp
    /\ UNCHANGED <<file, now, timers, autoDeleteTimer, alive, ui>>

\* app.delete('/messages/:id') up to its readMessages
IOLoadDelete ==
    /\ EventLoopIdle
    /\ \E id \in IdInputs :
          /\ inflight' = inflight \cup
                {Callback("deleteMessage", NoBody, id, NULL, 0, readMessages(file))}
          /\ req' = [NoReq EXCEPT !.op = "deleteMessage", !.id = id]
    /\ resp' = NoResp
    /\ UNCHANGED <<file, now, timers, autoDeleteTimer, alive, ui>>

\* the setInterval callback up to its readMessages
IOLoadSweep ==
    /\ EventLoopIdle
    /\ \E k \in timers :
          /\ k.due = now
          /\ inflight' = inflight \cup
                {Callback("sweep", NoBody, "", k.id, k.intervalMs, readMessages(file))}
          /\ timers' = (timers \ {k}) \cup {[k EXCEPT !.due = k.due + k.intervalMs]}
          /\ req' = [NoReq EXCEPT !.op = "sweep", !.timer = k.id,
                                  !.period = k.intervalMs]
    /\ resp' = NoResp
    /\ UNCHANGED <<file, now, autoDeleteTimer, alive, ui>>

\* what a callback does with the messages it loaded
Finish(c, t, io) ==
    CASE c.op = "postMessage"   -> PostMessages(c.snapshot, c.body, t, io)
      [] c.op = "deleteMessage" -> DeleteMessage(c.snapshot, c.id, io)
      [] OTHER -> Reply(0, EmptyBody, SweepCallback(c.snapshot, c.period, t, io), 0)

\* a callback goes from its readMessages to its end
IOSave ==
    \E c \in inflight, io \in IoOutcomes :
    \E r \in {Finish(c, now, io)} :
        /\ r.w.attempt \/ io = "ok"
        /\ file' = FileAfter(file, r.w)
        /\ resp' = Response(r)
        /\ req' = [NoReq EXCEPT !.op = c.op, !.body = c.body, !.id = c.id,
                                !.timer = c.timer, !.period = c.period]
        /\ inflight' = inflight \ {c}
        /\ UNCHANGED <<now, timers, autoDeleteTimer, alive, ui>>

\* an hour passes, between callbacks
IOAdvance ==
    /\ inflight = {}
    /\ now < MaxTime * HourMs
    /\ \A k \in timers : k.due > now
    /\ now' = now + HourMs
    /\ req' = [NoReq EXCEPT !.op = "advance"]
    /\ resp' = NoResp
    /\ UNCHANGED <<file, timers, autoDeleteTimer, inflight, alive, ui>>

NextIO ==
    \/ IOLoadPost
    \/ IOLoadDelete
    \/ IOLoadSweep
    \/ IOSave
    \/ IOAdvance

SpecIO == Init /\ [][NextIO]_vars

-----------------------------------------------------------------------------
(* The stored collection, as every reader sees it *)

Stored == readMessages(file)

IsOp(r, op) == r.op = op

\* the hours captured by the interval autoDeleteTimer refers to
ConfiguredHours == {k.hours : k \in {x \in timers : x.id = autoDeleteTimer}}

-----------------------------------------------------------------------------
(* C1: no two messages of the persisted collection have the same id, also  *)
(* when two POST /messages are handled at the same millisecond.            *)
C1_UniqueIds ==
    \A i, j \in 1..Len(Stored) : i # j => Stored[i].id # Stored[j].id

-----------------------------------------------------------------------------
(* C2: DELETE /messages/older-than with valid hours h (and a write that    *)
(* goes through) removes exactly the messages older than now - h hours,    *)
(* keeps the others in order, and answers 200 with deletedCount the number *)
(* of messages removed.                                                    *)
C2_OlderThanRemovesExactly ==
    [][ (IsOp(req', "deleteOlderThan") /\ ~InvalidHours(req'.hours)
            /\ resp'.write \in {"ok", "none"})
        => /\ resp'.status = 200
           /\ readMessages(file') = KeepSince(Stored, now - req'.hours.n * HourMs)
           /\ resp'.body.deletedCount = Len(Stored) - Len(readMessages(file')) ]_vars

-----------------------------------------------------------------------------
(* C3: GET /messages/auto-delete reports the configured expiry window (the *)
(* hours of the last successful POST /messages/auto-delete, else the       *)
(* default), so the client's auto-delete input shows the value just set.   *)
C3_GetReportsConfigured ==
    IsOp(req, "getAutoDelete")
        => /\ resp.status = 200
           /\ \A h \in ConfiguredHours :
                 /\ resp.body.currentSetting = ToString(h) \o " hours"
                 /\ AutoDeleteInputValue(resp.body) = h

-----------------------------------------------------------------------------
(* C4: a POST /messages answered 201 leaves GET /messages returning the    *)
(* previous messages, unchanged and in order, plus the new one last; the   *)
(* new message is the 201 body, its text the trimmed input, its id and     *)
(* timestamp made by the server from its clock and not read from the body; *)
(* and a text that is non-empty after trimming is answered 201 when the    *)
(* write goes through.                                                     *)
C4_PostAppendsTrimmed ==
    [][ IsOp(req', "postMessage")
        => /\ (resp'.status = 201)
                => /\ Trim(req'.body.text) # <<>>
                   /\ resp'.body.item.text = Trim(req'.body.text)
                   /\ resp'.body.item.id = NumToString(now)
                   /\ resp'.body.item.timestamp = toISOString(now)
                   /\ resp'.body.item.id # req'.body.id
                   /\ resp'.body.item.timestamp # req'.body.timestamp
                   /\ GetMessages(readMessages(file')).body.items
                         = Append(Stored, resp'.body.item)
           /\ (req'.body.hasText /\ Trim(req'.body.text) # <<>> /\ resp'.write = "ok")
                => resp'.status = 201 ]_vars

\* a second message, of another hour, was appended from a text with spaces around it
C4_Witness ==
    /\ IsOp(req, "postMessage")
    /\ resp.status = 201
    /\ Len(Stored) = 2
    /\ Stored[2] = resp.body.item
    /\ Stored[1].timestamp # Stored[2].timestamp
    /\ req.body.text # resp.body.item.text

-----------------------------------------------------------------------------
(* C5: a DELETE /messages/:id whose id matches no stored message is        *)
(* answered 404, writes nothing, and leaves the file as it was.            *)
C5_DeleteUnknownId ==
    [][ (req'.op \in {"deleteMessage", "deleteOlderThan"}
            /\ \A i \in 1..Len(Stored) : Stored[i].id # req'.id)
        => /\ resp'.status = 404
           /\ resp'.write = "none"
           /\ file' = file ]_vars

\* an id that is not stored was asked for while messages are stored
C5_Witness ==
    /\ IsOp(req, "deleteMessage")
    /\ resp.status = 404
    /\ Len(Stored) > 0
    /\ \A i \in 1..Len(Stored) : Stored[i].id # req.id

-----------------------------------------------------------------------------
(* C6: DELETE /messages/older-than and POST /messages/auto-delete both     *)
(* answer 400 to hours that is absent, not a number, negative or 0, and    *)
(* then change neither the collection nor the sweep timer; a number > 0 is *)
(* answered 200 (when the write, if any, goes through).                    *)
C6_HoursValidated ==
    [][ (req'.op \in {"deleteOlderThan", "setAutoDelete"})
        => /\ InvalidHours(req'.hours)
                => /\ resp'.status = 400
                   /\ file' = file
                   /\ timers' = timers
                   /\ autoDeleteTimer' = autoDeleteTimer
           /\ (req'.hours.kind = "number" /\ req'.hours.n > 0
                  /\ resp'.write \in {"ok", "none"})
                => resp'.status = 200 ]_vars

-----------------------------------------------------------------------------
(* C7: exactly one sweep interval is active, the one autoDeleteTimer       *)
(* refers to; a successful POST /messages/auto-delete makes it the one     *)
(* with the hours just sent; and a tick is always a tick of that interval, *)
(* with its period (an interval that was cancelled does not fire).         *)
C7_OneActiveTimer ==
    /\ Cardinality(timers) = 1
    /\ \A k \in timers : k.id = autoDeleteTimer /\ k.intervalMs = k.hours * HourMs
    /\ (IsOp(req, "setAutoDelete") /\ resp.status = 200)
          => ConfiguredHours = {req.hours.n}
    /\ IsOp(req, "sweep")
          => /\ req.timer = autoDeleteTimer
             /\ \A k \in timers : req.period = k.intervalMs

\* an interval installed by a reconfiguration has ticked
C7_Witness ==
    /\ IsOp(req, "sweep")
    /\ req.timer # 1
    /\ req.period # AUTO_DELETE_HOURS * HourMs

-----------------------------------------------------------------------------
-----------------------------------------------------------------------------
(* C10 as claimed: a mutation whose write fails is answered 500 and leaves *)
(* the collection as it was.                                               *)
C10_FailedWriteChangesNothing ==
    [][ (req'.op \in {"postMessage", "deleteMessage", "deleteAll", "deleteOlderThan"}
            /\ resp'.write \in {"failOpen", "failWrite"})
        => /\ resp'.status = 500
           /\ readMessages(file') = Stored ]_vars

(* C10, amended: a mutation whose write fails is answered 500, never 2xx;  *)
(* the file is as it was when the write failed before the file was opened, *)
(* and is left truncated (read as no messages) when it failed after.       *)
C10_FailedWriteAnswers500 ==
    [][ (req'.op \in {"postMessage", "deleteMessage", "deleteAll", "deleteOlderThan"}
            /\ resp'.write \in {"failOpen", "failWrite"})
        => /\ resp'.status = 500
           /\ resp'.write = "failOpen" => file' = file
           /\ resp'.write = "failWrite"
                 => file' = Truncated /\ readMessages(file') = <<>> ]_vars

\* a delete-all was answered 500 and the messages are still stored
C10_Witness ==
    /\ IsOp(req, "deleteAll")
    /\ resp.status = 500
    /\ resp.write = "failOpen"
    /\ Len(Stored) > 0

-----------------------------------------------------------------------------
-----------------------------------------------------------------------------
(* C11: whatever the backing file holds (missing, unreadable, not JSON, or *)
(* JSON whose root is no array), every reader treats it as an empty        *)
(* sequence and never fails hard: GET /messages answers 200 with an empty  *)
(* array, POST /messages behaves as on an empty store, DELETE              *)
(* /messages/:id answers 404, and a sweep tick completes without raising.  *)
(* Violated: a JSON root that is no array is returned as it is by          *)
(* readMessages, so GET sends it, POST and DELETE answer 500 from the      *)
(* error handler, and a tick on a null root ends the process.              *)
C11_AnyFileReadsAsEmpty ==
    [][ file.kind # "json" =>
          /\ IsOp(req', "getMessages") =>
                /\ resp'.status = 200
                /\ resp'.body = EmptyBody
          /\ IsOp(req', "postMessage") =>
                \E io \in IoOutcomes :
                    /\ resp' = Response(PostMessages(<<>>, req'.body, now, io))
                    /\ file' = FileAfter(file, PostMessages(<<>>, req'.body, now, io).w)
          /\ IsOp(req', "deleteMessage") => resp'.status = 404
          /\ IsOp(req', "sweep") => (alive' /\ file' = file) ]_vars

-----------------------------------------------------------------------------
(* C13: a DELETE /messages/:id whose id matches a stored message (and      *)
(* whose write succeeds) removes all messages with that id and no others,  *)
(* the rest keeping their order, answers 200, and the deletedCount it      *)
(* reports (always 1) is the number of messages removed.  Violated: two    *)
(* messages posted in one millisecond share their id (C1), both are        *)
(* removed, and the answer still says deletedCount 1.                      *)
C13_DeleteByIdCountsRemoved ==
    [][ ( /\ IsOp(req', "deleteMessage")
          /\ \E i \in 1..Len(Stored) : Stored[i].id = req'.id
          /\ resp'.write = "ok" )
        => /\ readMessages(file') = SelectSeq(Stored, LAMBDA m : m.id # req'.id)
           /\ resp'.status = 200
           /\ resp'.body.deletedCount = 1
           /\ resp'.body.deletedCount = Len(Stored) - Len(readMessages(file')) ]_vars

-----------------------------------------------------------------------------
(* C12: in the page, each of the five mutating actions (add, delete one,   *)
(* delete all, delete older-than, set auto-delete), once its request has   *)
(* been issued and answered successfully, shows a notification and then    *)
(* fetches again both the message list and the health status; and each of  *)
(* the four destructive actions issues no request unless the user has      *)
(* confirmed first.  Violated as stated: setAutoDelete fetches again the   *)
(* auto-delete setting only.                                               *)

Mutating ==
    {"addMessage", "deleteMessage", "deleteAllMessages",
     "clearMessagesOlderThan", "setAutoDelete"}

Destructive == Mutating \ {"addMessage"}

\* the last run ended an action whose request was answered with ok and JSON
AnsweredSuccessfully ==
    /\ ui.last.phase = "answered"
    /\ ui.last.answer.kind = "ok"
    /\ ui.last.answer.json

\* in log a notification is shown, and after it every fetch of fs is started
NotifiedThen(log, fs) ==
    \E i \in 1..Len(log) :
        /\ log[i] \in {"showSuccess", "showError"}
        /\ \A f \in fs : \E j \in (i + 1)..Len(log) : log[j] = f

\* the last run issued no request of a destructive action without a confirm
\* answered with yes before it
ConfirmedFirst ==
    (ui.last.action \in Destructive /\ ui.last.phase = "clicked")
        => \A i \in 1..Len(ui.last.log) :
              ui.last.log[i] = "fetch"
                  => /\ ui.last.confirmed
                     /\ \E j \in 1..(i - 1) : ui.last.log[j] = "confirm"

C12_AllFiveReloadListAndHealth ==
    /\ (ui.last.action \in Mutating /\ AnsweredSuccessfully)
          => NotifiedThen(ui.last.log, {"loadMessages", "checkBackendStatus"})
    /\ ConfirmedFirst

(* C12, amended: add, delete one, delete all and delete older-than, once   *)
(* answered successfully, show a success notification and then start       *)
(* loadMessages and checkBackendStatus; set auto-delete shows a success    *)
(* notification and then starts loadAutoDeleteSettings only; and no        *)
(* destructive action issues a request unless the user has confirmed first *)
C12_ReloadPerAction ==
    /\ [](/\ (ui.last.action \in Mutating \ {"setAutoDelete"} /\ AnsweredSuccessfully)
               => ui.last.log = <<"showSuccess", "loadMessages", "checkBackendStatus">>
          /\ (ui.last.action = "setAutoDelete" /\ AnsweredSuccessfully)
               => ui.last.log = <<"showSuccess", "loadAutoDeleteSettings">>
          /\ ConfirmedFirst)
    /\ [][ ( /\ Len(ui'.pending) < Len(ui.pending)
              /\ ui'.last.answer.kind = "ok"
              /\ ui'.last.answer.json )
            => /\ ui'.notification = "success"
               /\ ui'.loading = ui.loading \cup
                     (IF ui'.last.action = "setAutoDelete"
                      THEN {"loadAutoDeleteSettings"}
                      ELSE {"loadMessages", "checkBackendStatus"}) ]_vars
    /\ [][ Len(ui'.pending) > Len(ui.pending)
              => (ui'.last.action \in Destructive => ui'.last.confirmed) ]_vars

C12_Witness ==
    /\ ui.last.action = "setAutoDelete"
    /\ AnsweredSuccessfully
    /\ ui.loading = {"loadAutoDeleteSettings"}
    /\ ui.pending = <<"clearMessagesOlderThan">>

====
